---- MODULE Spec2Model ----
(***************************************************************************)
(* The nutrition store of src/main.py: three SQLite tables (foods,         *)
(* daily_goals, daily_intake), the start-up routine init_database and the  *)
(* six tools that read or write them.  Every tool opens a connection, runs *)
(* its statements, commits and closes inside one try block.                *)
(*                                                                         *)
(* Text values that the code orders or pattern-matches (food names, meal   *)
(* types) are sequences of one-character strings; every other text value   *)
(* is an uninterpreted string.  Numbers supplied by the caller are kept as *)
(* uninterpreted values; NaN is the float that the sqlite3 binding stores  *)
(* as NULL.                                                                *)
(***************************************************************************)
EXTENDS Integers, Sequences, FiniteSets, TLC

\* ------------------------------------------------------------- bounds
MaxFoods == 2
MaxIntake == 2
MaxLegacy == 1
MaxClock == 2
MaxLeaked == 1

\* ------------------------------------------------------------- values
NaN == "nan"
NoValue == "-"
Dates == {"d1", "d2"}
NoDate == "None"

Targets1 ==
  [target_calories |-> "2000", target_protein |-> "150",
   target_carbs |-> "250", target_fat |-> "70"]
Targets2 ==
  [target_calories |-> "1800", target_protein |-> "120",
   target_carbs |-> "200", target_fat |-> "60"]
TargetsNaN ==
  [target_calories |-> "1500", target_protein |-> "100",
   target_carbs |-> "150", target_fat |-> NaN]
GoodTargets == {Targets1, Targets2}
TargetArgs == GoodTargets \cup {TargetsNaN}
NoTargets ==
  [target_calories |-> NoValue, target_protein |-> NoValue,
   target_carbs |-> NoValue, target_fat |-> NoValue]

Macros1 == [calories |-> "89", protein |-> "1.1", carbs |-> "23", fat |-> "0.3"]
MacrosNaN == [calories |-> NaN, protein |-> "1.1", carbs |-> "23", fat |-> "0.3"]
MacroArgs == {Macros1, MacrosNaN}

Values1 == [calories |-> "89", protein |-> "1.1", carbs |-> "23", fat |-> "0.3"]
ValuesNaN == [calories |-> "52", protein |-> NaN, carbs |-> "14", fat |-> "0.2"]
ValueArgs == {Values1, ValuesNaN}

FoodNames == {<<"a", "b">>, <<"A">>, <<"b">>, <<"a", "_">>}
\* lookup_food treats None and "" alike (line 157): both are <<>> here
LookupArgs == FoodNames \cup {<<>>, <<"a">>, <<"B">>, <<"_">>, <<"%">>}
MealTypes == {<<"a", "b">>, <<"b">>}
NoMeal == <<"None">>
FoodTexts == {"banana"}
Portions == {<<"1 medium">>}
UnknownPortion == <<"unknown portion">>
NoPortion == <<"-">>
LegacyServings == {"200.0"}
AllTables == {"foods", "daily_goals", "daily_intake"}

\* ------------------------------------------------------------- text
\* code points: the BINARY collation compares the encoded bytes
Code(c) ==
  CASE c = "%" -> 37 [] c = "A" -> 65 [] c = "B" -> 66
    [] c = "_" -> 95 [] c = "a" -> 97 [] c = "b" -> 98

RECURSIVE TextLess(_, _)
TextLess(a, b) ==
  IF a = <<>> THEN b # <<>>
  ELSE IF b = <<>> THEN FALSE
  ELSE IF Code(Head(a)) # Code(Head(b)) THEN Code(Head(a)) < Code(Head(b))
  ELSE TextLess(Tail(a), Tail(b))

\* the ASCII case folding of SQLite's LIKE
Fold(c) == CASE c = "A" -> "a" [] c = "B" -> "b" [] OTHER -> c

\* str.upper()
Upper(c) == CASE c = "a" -> "A" [] c = "b" -> "B" [] OTHER -> c

UpperText(s) == [i \in 1..Len(s) |-> Upper(s[i])]

\* SQLite's LIKE: % matches any run of characters, _ any one character,
\* any other character itself up to ASCII case; no escape character is set
RECURSIVE Like(_, _)
Like(p, s) ==
  IF p = <<>> THEN s = <<>>
  ELSE IF Head(p) = "%" THEN Like(Tail(p), s) \/ (s # <<>> /\ Like(p, Tail(s)))
  ELSE /\ s # <<>>
       /\ (Head(p) = "_" \/ Fold(Head(p)) = Fold(Head(s)))
       /\ Like(Tail(p), Tail(s))

LikeArg(name) == <<"%">> \o name \o <<"%">>

\* ------------------------------------------------------------- sorting
\* The engine's sorter keeps rows that compare equal in scan (rowid) order.
\* ORDER BY name
NameBefore(r, q) == TextLess(r.name, q.name)

RECURSIVE InsertByName(_, _)
InsertByName(r, s) ==
  IF s = <<>> THEN <<r>>
  ELSE IF NameBefore(r, Head(s)) THEN <<r>> \o s
  ELSE <<Head(s)>> \o InsertByName(r, Tail(s))

RECURSIVE SortByName(_)
SortByName(s) ==
  IF s = <<>> THEN <<>>
  ELSE InsertByName(s[Len(s)], SortByName(SubSeq(s, 1, Len(s) - 1)))

\* ORDER BY meal_type, created_at
MealBefore(r, q) ==
  \/ TextLess(r.meal_type, q.meal_type)
  \/ r.meal_type = q.meal_type /\ r.created_at < q.created_at

RECURSIVE InsertByMeal(_, _)
InsertByMeal(r, s) ==
  IF s = <<>> THEN <<r>>
  ELSE IF MealBefore(r, Head(s)) THEN <<r>> \o s
  ELSE <<Head(s)>> \o InsertByMeal(r, Tail(s))

RECURSIVE SortByMeal(_)
SortByMeal(s) ==
  IF s = <<>> THEN <<>>
  ELSE InsertByMeal(s[Len(s)], SortByMeal(SubSeq(s, 1, Len(s) - 1)))

\* ------------------------------------------------------------- state
VARIABLES
  tables,        \* the tables that exist in the store file
  columns,       \* of daily_intake: which of serving_size_g, portion_description
  foods,         \* rows of foods, in rowid order
  daily_goals,   \* rows of daily_goals, in rowid order
  daily_intake,  \* rows of daily_intake, in rowid order
  clock,         \* the wall clock CURRENT_TIMESTAMP reads, in seconds
  started,       \* the process has run line 77 to its end
  open_conns,    \* connections opened and not closed
  last,          \* the last operation: its arguments, fault and result
  last_goal,     \* history: per date, the targets of the last successful set
  backfills,     \* history: how often the backfill UPDATE was committed
  pc, req, txn, lock   \* concurrent set_daily_goals calls (SpecConc)

vars ==
  <<tables, columns, foods, daily_goals, daily_intake, clock, started,
    open_conns, last, last_goal, backfills, pc, req, txn, lock>>

Procs == {"p1", "p2"}
NoProc == "none"
NoWrite == [del |-> {}, ins |-> <<>>]
NoReq == [date |-> NoDate, targets |-> Targets1]

\* what the store file holds
Store ==
  [tables |-> tables, columns |-> columns, foods |-> foods,
   daily_goals |-> daily_goals, daily_intake |-> daily_intake]

\* the record of an operation: what it was given, where a storage error was
\* raised, how it ended, what it listed, and the store it started from
Result(op, arg, fault, res, out) ==
  [op |-> op, arg |-> arg, fault |-> fault, res |-> res, out |-> out,
   before |-> Store]

NoOp ==
  [op |-> "none", arg |-> <<>>, fault |-> "none", res |-> "none", out |-> <<>>,
   before |-> [tables |-> {}, columns |-> {}, foods |-> <<>>,
               daily_goals |-> <<>>, daily_intake |-> <<>>]]

seqIdle ==
  /\ pc = [p \in Procs |-> "idle"]
  /\ req = [p \in Procs |-> NoReq]
  /\ txn = [p \in Procs |-> NoWrite]
  /\ lock = NoProc

\* ------------------------------------------------------------- rows
\* a float NaN, like None, is bound as NULL
HasNull(rec) == \E k \in DOMAIN rec : rec[k] = NaN

FoodRow(name, v) == [name |-> name, values |-> v]

GoalRow(d, t) ==
  [date |-> d, target_calories |-> t.target_calories,
   target_protein |-> t.target_protein, target_carbs |-> t.target_carbs,
   target_fat |-> t.target_fat]

GoalTargets(r) ==
  [target_calories |-> r.target_calories, target_protein |-> r.target_protein,
   target_carbs |-> r.target_carbs, target_fat |-> r.target_fat]

IntakeRow(d, food, portion, m, meal, now) ==
  [date |-> d, food_name |-> food, portion_description |-> portion,
   serving_size_g |-> NoValue, macros |-> m, meal_type |-> meal,
   created_at |-> now]

\* a row written by the schema generation that stored serving_size_g
LegacyRow(d, food, g, meal) ==
  [date |-> d, food_name |-> food, portion_description |-> NoPortion,
   serving_size_g |-> g, macros |-> Macros1, meal_type |-> meal,
   created_at |-> 0]

WithDate(rows, d) == LET Test(r) == r.date = d IN SelectSeq(rows, Test)

ResolveDate(d, today) == IF d = NoDate THEN today ELSE d

\* ------------------------------------------------------------- faults
\* where a storage error (I/O failure, locked or full store) is raised
WriteFaults == {"none", "connect", "execute", "commit"}
ReadFaults == {"none", "connect", "execute"}
InitFaults ==
  {"none", "connect", "create_foods", "create_goals", "create_intake",
   "pragma", "alter", "update", "commit"}

\* a connection was opened and the operation ended without closing it
Leaks(f) == f \notin {"none", "connect"}

\* the model follows at most MaxLeaked unclosed connections at a time
CanLeak(leaks) == leaks => open_conns < MaxLeaked

\* ------------------------------------------------------------- init_database
Stage(f) ==
  CASE f = "connect" -> 0 [] f = "create_foods" -> 1 [] f = "create_goals" -> 2
    [] f = "create_intake" -> 3 [] f = "pragma" -> 4 [] f = "alter" -> 5
    [] f = "update" -> 6 [] f = "commit" -> 7 [] f = "none" -> 8

\* statement k of init_database ran to its end
Ran(f, k) == Stage(f) > k

\* faulty variant: DROP TABLE and CREATE TABLE in place of CREATE TABLE IF NOT EXISTS
DropAndCreate(exists, rows) == <<>>

\* CREATE TABLE IF NOT EXISTS: the rows the table holds afterwards
CreateTable(exists, rows) == IF exists THEN rows ELSE <<>>

NeedsMigration(cols) ==
  "serving_size_g" \in cols /\ "portion_description" \notin cols

\* ALTER TABLE ... ADD COLUMN portion_description TEXT DEFAULT "unknown portion"
AddColumn(rows) ==
  [i \in 1..Len(rows) |-> [rows[i] EXCEPT !.portion_description = UnknownPortion]]

\* SET portion_description = serving_size_g || "g" WHERE ... = "unknown portion"
BackfillRow(r) ==
  IF r.portion_description = UnknownPortion
  THEN [r EXCEPT !.portion_description = <<r.serving_size_g>> \o <<"g">>]
  ELSE r

Backfill(rows) == [i \in 1..Len(rows) |-> BackfillRow(rows[i])]

Initialized == AllTables \subseteq tables /\ "portion_description" \in columns

\* Python's sqlite3 opens a transaction before INSERT/UPDATE/DELETE only:
\* each CREATE TABLE and the ALTER TABLE is committed as soon as it has run,
\* the UPDATE is committed by conn.commit().  No try block: an error raised
\* by any statement leaves init_database as an exception, conn still open.
init_database(f) ==
  /\ f \in InitFaults
  /\ CanLeak(Leaks(f))
  /\ LET created == Ran(f, 3) /\ "daily_intake" \notin tables
         cols1 == IF created THEN {"portion_description"} ELSE columns
         migrate == NeedsMigration(cols1)
         altered == migrate /\ Ran(f, 5)
         committed == migrate /\ Ran(f, 7)
         rows0 == IF Ran(f, 3)
                  THEN CreateTable("daily_intake" \in tables, daily_intake)
                  ELSE daily_intake
         rows1 == IF altered THEN AddColumn(rows0) ELSE rows0
     IN /\ f \in {"alter", "update", "commit"} => migrate
        /\ tables' = tables
                     \cup (IF Ran(f, 1) THEN {"foods"} ELSE {})
                     \cup (IF Ran(f, 2) THEN {"daily_goals"} ELSE {})
                     \cup (IF Ran(f, 3) THEN {"daily_intake"} ELSE {})
        /\ foods' = IF Ran(f, 1) THEN CreateTable("foods" \in tables, foods)
                    ELSE foods
        /\ daily_goals' = IF Ran(f, 2)
                          THEN CreateTable("daily_goals" \in tables, daily_goals)
                          ELSE daily_goals
        /\ columns' = IF altered THEN cols1 \cup {"portion_description"} ELSE cols1
        /\ daily_intake' = IF committed THEN Backfill(rows1) ELSE rows1
        /\ backfills' = IF committed THEN backfills + 1 ELSE backfills
        /\ last' = Result("init_database", <<Initialized>>, f,
                          IF f = "none" THEN "ok" ELSE "raised", <<>>)
  /\ started' = (f = "none")
  /\ open_conns' = IF Leaks(f) THEN open_conns + 1 ELSE open_conns
  /\ UNCHANGED <<clock, last_goal, pc, req, txn, lock>>

\* ------------------------------------------------------------- set_daily_goals
\* the rows that conflict on the UNIQUE date with a row for d
ConflictingGoals(rows, d) == {rows[i] : i \in {j \in 1..Len(rows) : rows[j].date = d}}

\* INSERT OR REPLACE: the conflicting rows found, and the row to add
ReplaceWrite(rows, d, t) == [del |-> ConflictingGoals(rows, d), ins |-> <<GoalRow(d, t)>>]

ApplyWrite(rows, w) ==
  LET Keep(r) == r \notin w.del IN SelectSeq(rows, Keep) \o w.ins

\* faulty variant: an upsert that updates target_calories only
UpsertCaloriesOnly(rows, d, t) ==
  IF ConflictingGoals(rows, d) = {} THEN Append(rows, GoalRow(d, t))
  ELSE [i \in 1..Len(rows) |->
          IF rows[i].date = d
          THEN [rows[i] EXCEPT !.target_calories = t.target_calories]
          ELSE rows[i]]

InsertOrReplace(rows, d, t) == ApplyWrite(rows, ReplaceWrite(rows, d, t))

set_daily_goals(t, date_str, today, f) ==
  /\ started
  /\ t \in TargetArgs /\ date_str \in Dates \cup {NoDate} /\ today \in Dates
  /\ f \in WriteFaults
  /\ f = "commit" => ~HasNull(t)
  /\ LET d == ResolveDate(date_str, today)
         failed == f # "none" \/ HasNull(t)
     IN /\ CanLeak(failed /\ f # "connect")
        /\ daily_goals' = IF failed THEN daily_goals
                          ELSE InsertOrReplace(daily_goals, d, t)
        /\ last_goal' = IF failed THEN last_goal ELSE [last_goal EXCEPT ![d] = t]
        /\ open_conns' = IF failed /\ f # "connect" THEN open_conns + 1
                         ELSE open_conns
        /\ last' = Result("set_daily_goals", [date |-> d, targets |-> t], f,
                          IF failed THEN "error" ELSE "ok", <<>>)
  /\ UNCHANGED <<tables, columns, foods, daily_intake, clock, started,
                 backfills, pc, req, txn, lock>>

\* ------------------------------------------------------------- add_food_to_database
\* faulty variant: name declared without UNIQUE
NoUniqueName(rows, name) == FALSE

\* the UNIQUE constraint on foods.name
UniqueViolation(rows, name) == \E i \in 1..Len(rows) : rows[i].name = name

\* sqlite3.IntegrityError: any constraint of the foods table that fails
IntegrityError(rows, name, v) == HasNull(v) \/ UniqueViolation(rows, name)

add_food_to_database(name, v, f) ==
  /\ started
  /\ name \in FoodNames /\ v \in ValueArgs /\ f \in WriteFaults
  /\ LET res == IF f \in {"connect", "execute"} THEN "error"
                ELSE IF IntegrityError(foods, name, v) THEN "duplicate"
                ELSE IF f = "commit" THEN "error"
                ELSE "ok"
     IN /\ f = "commit" => ~IntegrityError(foods, name, v)
        /\ res = "ok" => Len(foods) < MaxFoods
        /\ CanLeak(res # "ok" /\ f # "connect")
        /\ foods' = IF res = "ok" THEN Append(foods, FoodRow(name, v)) ELSE foods
        /\ open_conns' = IF res # "ok" /\ f # "connect" THEN open_conns + 1
                         ELSE open_conns
        /\ last' = Result("add_food_to_database", [name |-> name, values |-> v],
                          f, res, <<>>)
  /\ UNCHANGED <<tables, columns, daily_goals, daily_intake, clock, started,
                 last_goal, backfills, pc, req, txn, lock>>

\* ------------------------------------------------------------- lookup_food
\* SELECT * FROM foods WHERE name LIKE '%name%'
FoodsLike(rows, name) ==
  LET Test(r) == Like(LikeArg(name), r.name) IN SelectSeq(rows, Test)

lookup_food(name, f) ==
  /\ started
  /\ name \in LookupArgs /\ f \in ReadFaults
  /\ CanLeak(Leaks(f))
  /\ LET found == IF name # <<>> THEN FoodsLike(foods, name) ELSE SortByName(foods)
         res == IF f # "none" THEN "error"
                ELSE IF found # <<>> THEN "ok"
                ELSE IF name # <<>> THEN "no_match" ELSE "no_foods"
     IN /\ open_conns' = IF Leaks(f) THEN open_conns + 1 ELSE open_conns
        /\ last' = Result("lookup_food", name, f, res,
                          IF res = "ok" THEN found ELSE <<>>)
  /\ UNCHANGED <<tables, columns, foods, daily_goals, daily_intake, clock,
                 started, last_goal, backfills, pc, req, txn, lock>>

\* ------------------------------------------------------------- log_food_intake
log_food_intake(food, m, portion, meal, date_str, today, f) ==
  /\ started
  /\ food \in FoodTexts /\ m \in MacroArgs /\ portion \in Portions
  /\ meal \in MealTypes /\ date_str \in Dates \cup {NoDate} /\ today \in Dates
  /\ f \in WriteFaults
  /\ LET d == ResolveDate(date_str, today)
         rejected == HasNull(m) \/ "portion_description" \notin columns
         failed == f # "none" \/ rejected
     IN /\ f = "commit" => ~rejected
        /\ ~failed => Len(daily_intake) < MaxIntake
        /\ CanLeak(failed /\ f # "connect")
        /\ daily_intake' =
             IF failed THEN daily_intake
             ELSE Append(daily_intake, IntakeRow(d, food, portion, m, meal, clock))
        /\ open_conns' = IF failed /\ f # "connect" THEN open_conns + 1
                         ELSE open_conns
        /\ last' = Result("log_food_intake", [date |-> d, meal_type |-> meal], f,
                          IF failed THEN "error" ELSE "ok", <<>>)
  /\ UNCHANGED <<tables, columns, foods, daily_goals, clock, started, last_goal,
                 backfills, pc, req, txn, lock>>

\* ------------------------------------------------------------- review_meals
Heading(meal) == [kind |-> "heading", text |-> UpperText(meal), row |-> <<>>]

Entry(r) ==
  [kind |-> "entry", text |-> r.portion_description \o <<r.food_name>>,
   row |-> <<r>>]

\* the loop of lines 298-306: a heading whenever the meal type changes
RECURSIVE Render(_, _)
Render(meals, current_meal_type) ==
  IF meals = <<>> THEN <<>>
  ELSE LET r == Head(meals)
       IN (IF r.meal_type # current_meal_type THEN <<Heading(r.meal_type)>>
           ELSE <<>>)
          \o <<Entry(r)>> \o Render(Tail(meals), r.meal_type)

review_meals(date_str, today, f) ==
  /\ started
  /\ date_str \in Dates \cup {NoDate} /\ today \in Dates /\ f \in ReadFaults
  /\ CanLeak(Leaks(f))
  /\ LET d == ResolveDate(date_str, today)
         meals == SortByMeal(WithDate(daily_intake, d))
         res == IF f # "none" THEN "error"
                ELSE IF meals = <<>> THEN "no_meals" ELSE "ok"
     IN /\ open_conns' = IF Leaks(f) THEN open_conns + 1 ELSE open_conns
        /\ last' = Result("review_meals", d, f, res,
                          IF res = "ok" THEN Render(meals, NoMeal) ELSE <<>>)
  /\ UNCHANGED <<tables, columns, foods, daily_goals, daily_intake, clock,
                 started, last_goal, backfills, pc, req, txn, lock>>

\* ------------------------------------------------------------- get_database_info
FileExists == tables # {}

Counts ==
  [foods |-> Len(foods), intake |-> Len(daily_intake),
   goal_days |-> Cardinality({daily_goals[i].date : i \in 1..Len(daily_goals)})]

get_database_info(f) ==
  /\ started
  /\ f \in ReadFaults
  /\ CanLeak(Leaks(f))
  /\ f # "none" => FileExists
  /\ open_conns' = IF Leaks(f) THEN open_conns + 1 ELSE open_conns
  /\ last' = Result("get_database_info", <<FileExists>>, f,
                    IF f # "none" THEN "error" ELSE "ok",
                    IF f = "none" /\ FileExists THEN <<Counts>> ELSE <<>>)
  /\ UNCHANGED <<tables, columns, foods, daily_goals, daily_intake, clock,
                 started, last_goal, backfills, pc, req, txn, lock>>

\* ------------------------------------------------------------- environment
\* CURRENT_TIMESTAMP is the wall clock in whole seconds: it advances, and an
\* adjustment of the system time sets it back
clock_advance ==
  /\ clock < MaxClock
  /\ clock' = clock + 1
  /\ UNCHANGED <<tables, columns, foods, daily_goals, daily_intake, started,
                 open_conns, last, last_goal, backfills, pc, req, txn, lock>>

clock_set_back ==
  /\ clock > 0
  /\ clock' \in 0..(clock - 1)
  /\ UNCHANGED <<tables, columns, foods, daily_goals, daily_intake, started,
                 open_conns, last, last_goal, backfills, pc, req, txn, lock>>

\* the runtime finalizes a connection object nothing refers to any more (or
\* the process ends); the code asks for it nowhere
finalize_connection ==
  /\ open_conns > 0
  /\ open_conns' = open_conns - 1
  /\ UNCHANGED <<tables, columns, foods, daily_goals, daily_intake, clock,
                 started, last, last_goal, backfills, pc, req, txn, lock>>

\* ------------------------------------------------------------- concurrent calls
\* set_daily_goals statement by statement, for callers that share the store
\* file.  The engine lets one connection write at a time: execute takes the
\* write lock or fails with "database is locked"; commit publishes the write
\* and releases the lock.
\* faulty variant: writers that take no lock
NeverLocked(p) == TRUE

LockFree(p) == lock = NoProc

goals_connect(p, t, d) ==
  /\ pc[p] = "idle"
  /\ t \in TargetArgs /\ d \in Dates
  /\ pc' = [pc EXCEPT ![p] = "connected"]
  /\ req' = [req EXCEPT ![p] = [date |-> d, targets |-> t]]
  /\ open_conns' = open_conns + 1
  /\ UNCHANGED <<tables, columns, foods, daily_goals, daily_intake, clock,
                 started, last, last_goal, backfills, txn, lock>>

goals_execute(p) ==
  /\ pc[p] = "connected"
  /\ LockFree(p)
  /\ IF HasNull(req[p].targets)
     THEN /\ pc' = [pc EXCEPT ![p] = "failed"]
          /\ UNCHANGED <<txn, lock>>
     ELSE /\ pc' = [pc EXCEPT ![p] = "executed"]
          /\ txn' = [txn EXCEPT ![p] =
                       ReplaceWrite(daily_goals, req[p].date, req[p].targets)]
          /\ lock' = p
  /\ UNCHANGED <<tables, columns, foods, daily_goals, daily_intake, clock,
                 started, open_conns, last, last_goal, backfills, req>>

goals_locked(p) ==
  /\ pc[p] = "connected"
  /\ ~LockFree(p)
  /\ pc' = [pc EXCEPT ![p] = "failed"]
  /\ UNCHANGED <<tables, columns, foods, daily_goals, daily_intake, clock,
                 started, open_conns, last, last_goal, backfills, req, txn, lock>>

goals_commit(p) ==
  /\ pc[p] = "executed"
  /\ daily_goals' = ApplyWrite(daily_goals, txn[p])
  /\ last_goal' = [last_goal EXCEPT ![req[p].date] = req[p].targets]
  /\ lock' = IF lock = p THEN NoProc ELSE lock
  /\ pc' = [pc EXCEPT ![p] = "committed"]
  /\ UNCHANGED <<tables, columns, foods, daily_intake, clock, started,
                 open_conns, last, backfills, req, txn>>

goals_close(p) ==
  /\ pc[p] = "committed"
  /\ open_conns' = open_conns - 1
  /\ pc' = [pc EXCEPT ![p] = "returned"]
  /\ UNCHANGED <<tables, columns, foods, daily_goals, daily_intake, clock,
                 started, last, last_goal, backfills, req, txn, lock>>

\* ------------------------------------------------------------- stores at start
LastGoalOf(rows) ==
  [d \in Dates |->
     IF \E i \in 1..Len(rows) : rows[i].date = d
     THEN GoalTargets(rows[CHOOSE i \in 1..Len(rows) : rows[i].date = d])
     ELSE NoTargets]

LegacyRows == {LegacyRow(d, food, g, meal) :
                 d \in Dates, food \in FoodTexts, g \in LegacyServings,
                 meal \in MealTypes}

LegacyIntakes ==
  UNION {[1..n -> LegacyRows] : n \in 0..MaxLegacy}

\* the process is about to start; the store file does not exist yet
InitFresh ==
  /\ tables = {} /\ columns = {}
  /\ foods = <<>> /\ daily_goals = <<>> /\ daily_intake = <<>>
  /\ clock = 0 /\ started = FALSE /\ open_conns = 0
  /\ last = NoOp
  /\ last_goal = [d \in Dates |-> NoTargets]
  /\ backfills = 0
  /\ seqIdle

\* or the file was written by the schema generation that stored serving_size_g
\* (a food and a goal in it, any legacy intake rows)
InitLegacy ==
  /\ tables = AllTables /\ columns = {"serving_size_g"}
  /\ foods = <<FoodRow(<<"b">>, Values1)>>
  /\ daily_goals = <<GoalRow("d1", Targets1)>>
  /\ daily_intake \in LegacyIntakes
  /\ clock = 0 /\ started = FALSE /\ open_conns = 0
  /\ last = NoOp
  /\ last_goal = LastGoalOf(daily_goals)
  /\ backfills = 0
  /\ seqIdle

\* or by an earlier run of this code
CurrentIntakes ==
  {<<>>} \cup {<<IntakeRow(d, food, portion, Macros1, meal, 0)>> :
                 d \in Dates, food \in FoodTexts, portion \in Portions,
                 meal \in MealTypes}

InitCurrent ==
  /\ tables = AllTables /\ columns = {"portion_description"}
  /\ foods = <<FoodRow(<<"b">>, Values1)>>
  /\ daily_goals = <<GoalRow("d1", Targets1)>>
  /\ daily_intake \in CurrentIntakes
  /\ clock = 0 /\ started = FALSE /\ open_conns = 0
  /\ last = NoOp
  /\ last_goal = LastGoalOf(daily_goals)
  /\ backfills = 0
  /\ seqIdle

\* two callers, the store initialized
InitConc ==
  /\ tables = AllTables /\ columns = {"portion_description"}
  /\ foods = <<>> /\ daily_intake = <<>>
  /\ daily_goals \in {<<>>, <<GoalRow("d1", Targets1)>>}
  /\ clock = 0 /\ started = TRUE /\ open_conns = 0
  /\ last = NoOp
  /\ last_goal = LastGoalOf(daily_goals)
  /\ backfills = 0
  /\ seqIdle

\* ------------------------------------------------------------- specifications
\* date.today() is read only when date_str is None
TodayFor(date_str) == IF date_str = NoDate THEN Dates ELSE {date_str}

Startup == \E f \in InitFaults : init_database(f)

Info == \E f \in ReadFaults : get_database_info(f)

NextFoods ==
  \/ Startup
  \/ \E name \in FoodNames, v \in ValueArgs, f \in WriteFaults :
       add_food_to_database(name, v, f)
  \/ \E name \in LookupArgs, f \in ReadFaults : lookup_food(name, f)
  \/ Info
  \/ finalize_connection

NextGoals ==
  \/ Startup
  \/ \E t \in TargetArgs, d \in Dates \cup {NoDate}, f \in WriteFaults :
       \E today \in TodayFor(d) : set_daily_goals(t, d, today, f)
  \/ Info
  \/ finalize_connection

Log ==
  \E food \in FoodTexts, m \in MacroArgs, portion \in Portions,
     meal \in MealTypes, d \in Dates \cup {NoDate}, f \in WriteFaults :
    \E today \in TodayFor(d) :
      log_food_intake(food, m, portion, meal, d, today, f)

NextStore ==
  \/ Startup
  \/ Log
  \/ Info
  \/ finalize_connection

NextIntake ==
  \/ Startup
  \/ Log
  \/ \E d \in Dates \cup {NoDate}, f \in ReadFaults :
       \E today \in TodayFor(d) : review_meals(d, today, f)
  \/ Info
  \/ clock_advance
  \/ clock_set_back
  \/ finalize_connection

NextConc ==
  \E p \in Procs :
    \/ \E t \in TargetArgs, d \in Dates : goals_connect(p, t, d)
    \/ goals_execute(p)
    \/ goals_locked(p)
    \/ goals_commit(p)
    \/ goals_close(p)

SpecFoods == InitFresh /\ [][NextFoods]_vars
SpecGoals == InitFresh /\ [][NextGoals]_vars
SpecIntake == InitFresh /\ [][NextIntake]_vars
SpecStore == (InitFresh \/ InitLegacy \/ InitCurrent) /\ [][NextStore]_vars
SpecConc == InitConc /\ [][NextConc]_vars

\* ------------------------------------------------------------- properties
HasName(rows, name) == \E i \in 1..Len(rows) : rows[i].name = name

Names(rows) == {rows[i].name : i \in 1..Len(rows)}

Failed == last.res \in {"error", "duplicate", "raised"}

\* C1: the store holds at most one daily_goals row per date, and the row of a
\* date carries all four targets of the last set_daily_goals call that
\* succeeded for that date
C1_OneGoalPerDate ==
  \A d \in Dates :
    LET rows == WithDate(daily_goals, d)
    IN /\ Len(rows) <= 1
       /\ Len(rows) = 1 => GoalTargets(rows[1]) = last_goal[d]
       /\ Len(rows) = 0 => last_goal[d] = NoTargets

\* a successful call has replaced the row of an earlier call for the same
\* date that carried other targets
C1_Witness ==
  /\ last.op = "set_daily_goals" /\ last.res = "ok"
  /\ LET old == WithDate(last.before.daily_goals, last.arg.date)
     IN /\ old # <<>>
        /\ GoalTargets(old[1]).target_calories # last.arg.targets.target_calories
        /\ Len(daily_goals) = 2

\* C2: add_food_to_database with a name already in foods reports the
\* duplicate and adds no row; with a new name (and values the table accepts,
\* no storage error) it succeeds and adds exactly that one row; and
\* lookup_food called with the exact name of a registered food lists it
C2_Register ==
  /\ last.op = "add_food_to_database" =>
       /\ (HasName(last.before.foods, last.arg.name)
             /\ last.fault \notin {"connect", "execute"})
          => last.res = "duplicate" /\ foods = last.before.foods
       /\ (~HasName(last.before.foods, last.arg.name)
             /\ ~HasNull(last.arg.values) /\ last.fault = "none")
          => /\ last.res = "ok"
             /\ foods = Append(last.before.foods,
                               FoodRow(last.arg.name, last.arg.values))
  /\ (last.op = "lookup_food" /\ last.fault = "none" /\ HasName(foods, last.arg))
     => last.res = "ok" /\ HasName(last.out, last.arg)
  /\ \A i, j \in 1..Len(foods) : foods[i].name = foods[j].name => i = j

\* a second registration of a name was refused as a duplicate
C2_Witness ==
  /\ last.op = "add_food_to_database" /\ last.res = "duplicate"
  /\ HasName(last.before.foods, last.arg.name)
  /\ ~HasNull(last.arg.values)
  /\ foods = last.before.foods

\* C3: review_meals lists exactly the entries logged for the date, each meal
\* type as one contiguous section under one heading, the sections in
\* lexicographic order of meal type, the entries of a section in the order
\* in which they were logged
EntryRows(out) ==
  LET IsEntry(x) == x.kind = "entry"
      es == SelectSeq(out, IsEntry)
  IN [i \in 1..Len(es) |-> es[i].row[1]]

WithMeal(rows, meal) == LET Test(r) == r.meal_type = meal IN SelectSeq(rows, Test)

C3_ReviewOrder ==
  (last.op = "review_meals" /\ last.fault = "none") =>
    LET logged == WithDate(daily_intake, last.arg)
        out == last.out
        es == EntryRows(out)
    IN /\ Len(es) = Len(logged)
       /\ \A i \in 1..Len(es) : es[i].date = last.arg
       /\ \A meal \in MealTypes : WithMeal(es, meal) = WithMeal(logged, meal)
       /\ \A i, j \in 1..Len(es) :
            i < j => ~TextLess(es[j].meal_type, es[i].meal_type)
       /\ \A i \in 1..Len(out) :
            out[i].kind = "heading" =>
              /\ i < Len(out) /\ out[i + 1].kind = "entry"
              /\ out[i].text = UpperText(out[i + 1].row[1].meal_type)
              /\ \A j \in 1..Len(out) :
                   (out[j].kind = "heading" /\ out[j].text = out[i].text) => j = i
       /\ \A i \in 1..Len(out) :
            out[i].kind = "entry" =>
              /\ i > 1
              /\ out[i - 1].kind = "entry"
                 => out[i - 1].row[1].meal_type = out[i].row[1].meal_type

\* C4: an operation that fails leaves the stored rows as they were before it
\* began (stated for the rows of the three tables)
C4_Atomic ==
  Failed =>
    /\ foods = last.before.foods
    /\ daily_goals = last.before.daily_goals
    /\ daily_intake = last.before.daily_intake

\* C5: no operation lets a storage error escape to its caller
C5_NoEscape == last.res # "raised"

\* C6: add_food_to_database reports the duplicate only when a food of that
\* name exists
C6_DuplicateOnlyWhenPresent ==
  (last.op = "add_food_to_database" /\ last.res = "duplicate")
  => HasName(last.before.foods, last.arg.name)

\* C7: two concurrent set_daily_goals calls for one date end with exactly one
\* row for the date, all four targets from one of the calls that succeeded
Done(p) == pc[p] \in {"returned", "failed"}

C7_OnePayload ==
  ((\A p \in Procs : Done(p)) /\ req["p1"].date = req["p2"].date) =>
    LET rows == WithDate(daily_goals, req["p1"].date)
    IN /\ (\A p \in Procs : ~HasNull(req[p].targets))
          => \E p \in Procs : pc[p] = "returned"
       /\ (\E p \in Procs : pc[p] = "returned") =>
            /\ Len(rows) = 1
            /\ \E p \in Procs : /\ pc[p] = "returned"
                                /\ GoalTargets(rows[1]) = req[p].targets

\* the calls overlapped: one found the store locked by the other's write
C7_Witness ==
  /\ pc["p1"] = "returned" /\ pc["p2"] = "failed"
  /\ req["p1"].date = req["p2"].date
  /\ ~HasNull(req["p2"].targets)
  /\ req["p1"].targets # req["p2"].targets
  /\ last_goal[req["p1"].date] = req["p1"].targets

\* C8: init_database run on a store that is already initialized changes no
\* row of any table, and the backfill is committed at most once per store
C8_InitIdempotent ==
  /\ (last.op = "init_database" /\ last.arg[1]) =>
       /\ foods = last.before.foods
       /\ daily_goals = last.before.daily_goals
       /\ daily_intake = last.before.daily_intake
       /\ columns = last.before.columns
  /\ backfills <= 1

\* the process restarted on a store it had migrated, rows in all three tables
C8_Witness ==
  /\ last.op = "init_database" /\ last.arg[1] /\ last.res = "ok"
  /\ backfills = 1
  /\ foods # <<>> /\ daily_goals # <<>> /\ Len(daily_intake) = 2
  /\ \E i \in 1..Len(daily_intake) :
       daily_intake[i].portion_description = <<"200.0", "g">>

\* C9: lookup_food without a name lists every food in ascending order of
\* name; with a name it lists exactly the foods whose name contains it
\* (up to ASCII case, as the store's collation compares)
Contains(s, sub) ==
  \E k \in 0..(Len(s) - Len(sub)) :
    \A i \in 1..Len(sub) : Fold(s[k + i]) = Fold(sub[i])

C9_Lookup ==
  (last.op = "lookup_food" /\ last.fault = "none") =>
    IF last.arg = <<>>
    THEN /\ Names(last.out) = Names(foods)
         /\ Len(last.out) = Len(foods)
         /\ \A i, j \in 1..Len(last.out) :
              i < j => TextLess(last.out[i].name, last.out[j].name)
    ELSE {last.out[i] : i \in 1..Len(last.out)}
         = {foods[i] : i \in {j \in 1..Len(foods) : Contains(foods[j].name, last.arg)}}

\* C10: between operations no connection is open
C10_Closed == open_conns = 0

====
